---- MODULE Spec2Model ----
(***************************************************************************)
(* Task lifecycle and admission of the Liaison MCP server                  *)
(* (packages/mcp-liaison/src/index.ts, class LiaisonServer).               *)
(*                                                                         *)
(* The server is single-threaded: every tool handler and every segment of  *)
(* processTask between two awaits runs to completion, so each is one       *)
(* action.  Time is counted in units of the step delay (1000 ms).          *)
(***************************************************************************)
EXTENDS Integers, Sequences, FiniteSets, TLC

\* ----------------------------------------------------------------- bounds
\* Number of task identifiers the model hands out.
MaxTasks == 3
\* Last instant of the clock (in units of the step delay).
MaxTime == 6
\* Largest value of config.maxConcurrentTasks the model constructs.
MaxConcurrent == 2
\* The literal 100 of cleanupOldTasks, scaled so that eviction is reachable.
RetentionCap == 1
\* Largest limit argument of list_tasks the model passes (the schema allows
\* 1..100).
MaxLimit == 2

\* config.maxTaskDescriptionLength and config.maxContextLength (the code's
\* defaults are 5000 and 50000 characters)
MaxTaskDescriptionLength == 2

MaxContextLength == 1

\* ------------------------------------------------------ program constants
\* const steps = 5
Steps == 5
\* setTimeout(resolve, 1000): one unit of model time
StepDelay == 1

\* enum TaskStatus
PENDING == "pending"
IN_PROGRESS == "in_progress"
COMPLETED == "completed"
FAILED == "failed"
CANCELLED == "cancelled"

TaskStatus == {PENDING, IN_PROGRESS, COMPLETED, FAILED, CANCELLED}

\* An optional field of TaskState that is not set.
Undefined == 0 - 1

\* task.result on success, task.error on the timeout throw
SimulatedResult == "Task completed successfully (simulated)"
TimeoutError == "Task exceeded timeout"
NoText == ""

TaskIds == 1 .. MaxTasks

\* The taskTimeoutMs values the model constructs, in units of the step
\* delay: the steps of a task take Steps * StepDelay when every timer fires
\* on time, so these are a timeout every task exceeds and one that only a
\* task with a late timer exceeds.
TimeoutChoices == {Steps * StepDelay - 1, Steps * StepDelay}

VARIABLES
    phase,          \* the process: "running", "closing" (handleShutdown
                    \* awaits server.close()), "exited" (process.exit),
                    \* "stopped" (stop() was called)
    config,         \* this.config (maxConcurrentTasks, taskTimeoutMs)
    now,            \* Date.now()
    tasks,          \* keys of this.tasks (the Map)
    heap,           \* the TaskState objects, by id (the Map's values, and
                    \* the objects the running processTask calls still hold)
    engine,         \* per processTask call: position, loop index i, timer
    response,       \* the result the tool handler of this step returned
                    \* (NoResponse after a step that is no tool call)
    cancelledAtStep,\* history: loop index of processTask when cancel_task
                    \* was accepted for the task (Undefined: never)
    cleanedUp       \* history: the ids cleanupOldTasks has deleted

vars == <<phase, config, now, tasks, heap, engine, response, cancelledAtStep,
          cleanedUp>>

\* ---------------------------------------------------------------- helpers
IsActive(status) == status = IN_PROGRESS \/ status = PENDING

IsTerminal(status) ==
    status = COMPLETED \/ status = FAILED \/ status = CANCELLED

\* getActiveTaskCount()
getActiveTaskCount ==
    Cardinality({id \in tasks : IsActive(heap[id].status)})

\* generateTaskId(): a fresh identifier (heap is a sequence of all the
\* TaskState objects created so far)
generateTaskId == Len(heap) + 1

\* Mutant: the percentage counts one step too few.
ProgressAfterStepShort(i) ==
    (2 * (i + 1) * 100 + (Steps - 1)) \div (2 * (Steps - 1))

\* Math.round(((i + 1) / steps) * 100)
ProgressAfter(i) == (2 * (i + 1) * 100 + Steps) \div (2 * Steps)

\* The TaskState literal of the delegate handler.
NewTaskState(t) ==
    [status |-> PENDING, createdAt |-> t, updatedAt |-> t,
     startedAt |-> Undefined, completedAt |-> Undefined,
     result |-> NoText, error |-> NoText, progress |-> 0]

\* Mutant: the admission test counts every record, terminal ones too.
AdmissionRejectedCountsAll(activeCount) ==
    Cardinality(tasks) >= config.maxConcurrentTasks

\* Mutant: the admission test off by one (> for >=).
AdmissionRejectedOffByOne(activeCount) ==
    activeCount > config.maxConcurrentTasks

\* The admission test of the delegate handler.
AdmissionRejected(activeCount) == activeCount >= config.maxConcurrentTasks

\* ------------------------------------------------------- cleanupOldTasks
\* Mutant: the filter forgets CANCELLED.
CleanupCandidatesNotCancelled(tks, hp) ==
    {id \in tks : hp[id].status = COMPLETED \/ hp[id].status = FAILED}

\* Mutant: no status filter at all.
CleanupCandidatesAll(tks, hp) == tks

\* .filter(...): the entries cleanupOldTasks considers
CleanupCandidates(tks, hp) == {id \in tks : IsTerminal(hp[id].status)}

\* Mutant: the comparator of cleanupOldTasks sorts oldest first.
SortsBeforeAscending(a, b, hp) ==
    \/ hp[a].updatedAt < hp[b].updatedAt
    \/ hp[a].updatedAt = hp[b].updatedAt /\ a < b

\* .sort((a, b) => b.updatedAt - a.updatedAt): a comes before b.  The sort
\* is stable, so equal updatedAt keep the Map's insertion order, which is
\* the order of the identifiers.
SortsBefore(a, b, hp) ==
    \/ hp[a].updatedAt > hp[b].updatedAt
    \/ hp[a].updatedAt = hp[b].updatedAt /\ a < b

\* Index of id in the sorted array.
SortedIndex(id, among, hp) ==
    Cardinality({j \in among : SortsBefore(j, id, hp)})

\* Mutant: cleanupOldTasks deletes every terminal entry, cap or not.
cleanupOldTasksDropsAllTerminal(tks, hp) == tks \ CleanupCandidates(tks, hp)

\* cleanupOldTasks(): the keys of the Map after it
cleanupOldTasks(tks, hp) ==
    LET completedTasks == CleanupCandidates(tks, hp)
        toRemove == {id \in completedTasks :
                        SortedIndex(id, completedTasks, hp) >= RetentionCap}
    IN  IF Cardinality(completedTasks) > RetentionCap
        THEN tks \ toRemove
        ELSE tks

\* ------------------------------------------------------------ processTask
\* Mutant: every processTask call writes to the oldest TaskState.
EngineRecordOldest(taskId) == 1

\* const task = this.tasks.get(taskId): the TaskState object the call holds
\* from its start to its return, whatever happens to the Map's entry.
EngineRecord(taskId) == taskId

\* Mutant: the start leaves the status as it is.
StartTaskKeepsPending(rec, t) ==
    [rec EXCEPT !.startedAt = t, !.updatedAt = t, !.progress = 0]

\* Mutant: the start is stamped with the epoch (new Date(0)).
StartTaskStampsEpoch(rec, t) ==
    [rec EXCEPT !.status = IN_PROGRESS, !.startedAt = 0,
                !.updatedAt = t, !.progress = 0]

\* "Update to in-progress"
StartTask(rec, t) ==
    [rec EXCEPT !.status = IN_PROGRESS, !.startedAt = t,
                !.updatedAt = t, !.progress = 0]

\* Mutant: the loop check looks for removal only, not for CANCELLED.
LoopCheckStopsRemovedOnly(id, tks, hp) == id \notin tks

\* The check at the top of the loop body: the task was removed or cancelled
LoopCheckStops(id, tks, hp) ==
    id \notin tks \/ hp[id].status = CANCELLED

\* Mutant: the progress step stamps startedAt as well.
StepTaskRestamps(rec, i, t) ==
    [rec EXCEPT !.progress = ProgressAfter(i), !.updatedAt = t,
                !.startedAt = t]

\* The two writes after the awaited timer of iteration i
StepTask(rec, i, t) ==
    [rec EXCEPT !.progress = ProgressAfter(i), !.updatedAt = t]

\* Mutant: the timeout check is missing.
TimedOutNever(rec, t) == FALSE

\* Mutant: elapsed measured from the last update, not from startedAt.
TimedOutSinceUpdate(rec, t) == t - rec.updatedAt > config.taskTimeoutMs

\* "Check timeout": elapsed > this.config.taskTimeoutMs
TimedOut(rec, t) == t - rec.startedAt > config.taskTimeoutMs

\* Mutant: completion forgets the result.
CompleteTaskNoResult(rec, t) ==
    [rec EXCEPT !.status = COMPLETED, !.completedAt = t, !.updatedAt = t,
                !.progress = 100]

\* "Mark as completed"
CompleteTask(rec, t) ==
    [rec EXCEPT !.status = COMPLETED, !.completedAt = t, !.updatedAt = t,
                !.progress = 100, !.result = SimulatedResult]

\* Mutant: the catch block resets the progress.
FailTaskResetsProgress(rec, t, message) ==
    [rec EXCEPT !.status = FAILED, !.completedAt = t, !.updatedAt = t,
                !.error = message, !.progress = 0]

\* The catch block
FailTask(rec, t, message) ==
    [rec EXCEPT !.status = FAILED, !.completedAt = t, !.updatedAt = t,
                !.error = message]

\* Mutant: nothing is written after the loop.
FinishTaskNoWrite(rec, t) == rec

\* Mutant: the timeout is checked after the completion writes.
FinishTaskCheckAfterCompletion(rec, t) ==
    IF TimedOut(rec, t)
    THEN FailTask(CompleteTask(rec, t), t, TimeoutError)
    ELSE CompleteTask(rec, t)

\* What follows the loop: the timeout check, then completion or the catch
FinishTask(rec, t) ==
    IF TimedOut(rec, t)
    THEN FailTask(rec, t, TimeoutError)
    ELSE CompleteTask(rec, t)

\* The state of a processTask call suspended on the timer of iteration i
Awaiting(i, t) == [pc |-> "await", i |-> i, due |-> t + StepDelay]

\* The state of a processTask call that has returned; i is the number of
\* timers it awaited.
Returned(i) == [pc |-> "done", i |-> i, due |-> Undefined]

\* No tool handler returned in this step.
NoResponse == [kind |-> "none"]

\* ---------------------------------------------------------- tool handlers
\* Mutant: the rejection reports the size of the Map as the active count.
RejectionResponseTotal(activeCount) ==
    [kind |-> "rejected",
     maxConcurrentTasks |-> config.maxConcurrentTasks,
     currentActiveTasks |-> Cardinality(tasks)]

\* The result of a delegate call turned away at the concurrency limit
RejectionResponse(activeCount) ==
    [kind |-> "rejected",
     maxConcurrentTasks |-> config.maxConcurrentTasks,
     currentActiveTasks |-> activeCount]

\* Mutant: the lookup finds every TaskState ever created, removed or not.
validateTaskExistsEverCreated(taskId) == taskId \in DOMAIN heap

\* validateTaskExists(taskId): TRUE when it returns the task, FALSE when it
\* throws "Task not found"
validateTaskExists(taskId) == taskId \in tasks

\* Mutant: cancel_task refuses only a task that is already CANCELLED.
CancelRefusedOnlyCancelled(status) == status = CANCELLED

\* "Can only cancel pending or in-progress tasks"
CancelRefused(status) == status # PENDING /\ status # IN_PROGRESS

\* Mutant: the cancellation also stamps completedAt.
CancelWriteCompletedAt(rec, t) ==
    [rec EXCEPT !.status = CANCELLED, !.updatedAt = t, !.completedAt = t]

\* The two writes of an accepted cancel_task
CancelWrite(rec, t) == [rec EXCEPT !.status = CANCELLED, !.updatedAt = t]

\* Mutant: clearTasks() spares the tasks that are still running.
clearTasksKeepsActive(tks) == {id \in tks : IsActive(heap[id].status)}

\* this.tasks.clear(): the keys of the Map after it
clearTasks(tks) == {}

\* Mutant: the counts of getStats() include the TaskState objects that were
\* removed from the Map.
CountWithStatusEverCreated(status) ==
    Cardinality({id \in DOMAIN heap : heap[id].status = status})

\* tasks.filter(t => t.status === status).length of getStats()
CountWithStatus(status) ==
    Cardinality({id \in tasks : heap[id].status = status})

\* The object getStats() returns
getStats ==
    [kind |-> "stats",
     totalTasks |-> Cardinality(tasks),
     pendingTasks |-> CountWithStatus(PENDING),
     inProgressTasks |-> CountWithStatus(IN_PROGRESS),
     completedTasks |-> CountWithStatus(COMPLETED),
     failedTasks |-> CountWithStatus(FAILED),
     cancelledTasks |-> CountWithStatus(CANCELLED)]

\* Mutant: handleShutdown cancels every task in the Map.
ShutdownTargetsAll(tks, hp) == tks

\* runningTasks of handleShutdown
ShutdownTargets(tks, hp) ==
    {id \in tks : hp[id].status = IN_PROGRESS \/ hp[id].status = PENDING}

\* Mutant: handleShutdown changes the status only.
ShutdownWriteStatusOnly(rec, t) == [rec EXCEPT !.status = CANCELLED]

\* The two writes of handleShutdown to a running task
ShutdownWrite(rec, t) == [rec EXCEPT !.status = CANCELLED, !.updatedAt = t]

\* Mutant: the context has no upper bound.
ValidContextAlways(context) == TRUE

\* context: z.string().max(maxContextLength).optional(), on the length of
\* the string (Undefined: no context given)
ValidContext(context) ==
    context = Undefined \/ context <= config.maxContextLength

\* task: z.string().min(1).max(maxTaskDescriptionLength), on the length of
\* the string
ValidTask(task) == task >= 1 /\ task <= config.maxTaskDescriptionLength

\* list_tasks called without a status argument
NoFilter == "any"

StatusFilters == TaskStatus \cup {NoFilter}

\* tasks.filter(t => t.status === args.status), when a status is given
ListFiltered(status, tks, hp) ==
    IF status = NoFilter
    THEN tks
    ELSE {id \in tks : hp[id].status = status}

\* Mutant: the comparator of list_tasks sorts oldest first.
ListSortsBeforeAscending(a, b, hp) ==
    \/ hp[a].updatedAt < hp[b].updatedAt
    \/ hp[a].updatedAt = hp[b].updatedAt /\ a < b

\* tasks.sort((a, b) => b.updatedAt - a.updatedAt) of list_tasks: a comes
\* before b (stable: equal updatedAt keep the Map's insertion order).
ListSortsBefore(a, b, hp) ==
    \/ hp[a].updatedAt > hp[b].updatedAt
    \/ hp[a].updatedAt = hp[b].updatedAt /\ a < b

\* The sorted array, as a sequence of ids.
ListSorted(ids, hp) ==
    [k \in 1 .. Cardinality(ids) |->
        CHOOSE id \in ids :
            Cardinality({j \in ids : ListSortsBefore(j, id, hp)}) = k - 1]

\* tasks.slice(0, args.limit)
ListSlice(sorted, limit) ==
    SubSeq(sorted, 1, IF Len(sorted) < limit THEN Len(sorted) ELSE limit)

\* Mutant: total is the number of tasks that pass the filter.
ListResponseTotalOfFiltered(status, limit, tks, taskList) ==
    [kind |-> "list", status |-> status, limit |-> limit,
     total |-> Cardinality(ListFiltered(status, tks, heap)),
     filtered |-> Len(taskList),
     tasks |-> taskList]

\* The result of list_tasks (status and limit are the arguments it answers)
ListResponse(status, limit, tks, taskList) ==
    [kind |-> "list", status |-> status, limit |-> limit,
     total |-> Cardinality(tks),
     filtered |-> Len(taskList),
     tasks |-> taskList]

\* One entry of taskList (the task text is left out).
ListEntry(id, hp) ==
    [taskId |-> id, status |-> hp[id].status,
     createdAt |-> hp[id].createdAt, updatedAt |-> hp[id].updatedAt,
     progress |-> hp[id].progress]

\* ------------------------------------------------------------------ Init
Init ==
    /\ phase = "running"
    /\ config \in [maxConcurrentTasks : 1 .. MaxConcurrent,
                   taskTimeoutMs : TimeoutChoices,
                   maxTaskDescriptionLength : {MaxTaskDescriptionLength},
                   maxContextLength : {MaxContextLength}]
    /\ now = 0
    /\ tasks = {}
    /\ heap = <<>>
    /\ engine = <<>>
    /\ response = NoResponse
    /\ cancelledAtStep = <<>>
    /\ cleanedUp = {}

\* --------------------------------------------------------------- actions
\* The clock advances.  The model stops the clock rather than leave a
\* running processTask without the time to await its remaining timers
\* before MaxTime.
Tick ==
    /\ phase # "exited"
    /\ now < MaxTime
    /\ \A id \in DOMAIN engine :
          engine[id].pc = "await" =>
             now + 1 + (Steps - 1 - engine[id].i) * StepDelay <= MaxTime
    /\ now' = now + 1
    /\ response' = NoResponse
    /\ UNCHANGED <<phase, config, tasks, heap, engine, cancelledAtStep, cleanedUp>>

\* The delegate tool handler: admission, insertion, the synchronous start
\* of processTask (up to its first await), cleanupOldTasks and the response.
Delegate ==
    /\ phase = "running"
    /\ LET activeCount == getActiveTaskCount
           taskId == generateTaskId
           taskState == StartTask(NewTaskState(now), now)
           hp == Append(heap, taskState)
           tks == tasks \cup {taskId}
       IN  IF AdmissionRejected(activeCount)
           THEN /\ response' = RejectionResponse(activeCount)
                /\ UNCHANGED <<phase, config, now, tasks, heap, engine,
                               cancelledAtStep, cleanedUp>>
           ELSE /\ taskId <= MaxTasks
                /\ now + Steps * StepDelay <= MaxTime
                /\ heap' = hp
                /\ engine' = Append(engine,
                                    IF LoopCheckStops(taskId, tks, hp)
                                    THEN Returned(0)
                                    ELSE Awaiting(0, now))
                /\ tasks' = cleanupOldTasks(tks, hp)
                /\ cleanedUp' =
                      cleanedUp \cup (tks \ cleanupOldTasks(tks, hp))
                /\ cancelledAtStep' = Append(cancelledAtStep, Undefined)
                /\ response' = [kind |-> "delegated", taskId |-> taskId,
                                status |-> hp[taskId].status,
                                createdAt |-> hp[taskId].createdAt]
                /\ UNCHANGED <<phase, config, now>>

\* The timer of iteration i of processTask(id) fires: the progress write,
\* then either the next iteration's check and timer, or the timeout check
\* and the terminal write.
TimerFire(id) ==
    /\ phase # "exited"
    /\ id \in DOMAIN engine
    /\ engine[id].pc = "await"
    /\ now >= engine[id].due
    /\ LET i == engine[id].i
           task == EngineRecord(id)
           stepped == StepTask(heap[task], i, now)
           hp == [heap EXCEPT ![task] = stepped]
       IN  IF i + 1 < Steps
           THEN /\ heap' = hp
                /\ engine' = [engine EXCEPT ![id] =
                                 IF LoopCheckStops(id, tasks, hp)
                                 THEN Returned(i + 1)
                                 ELSE Awaiting(i + 1, now)]
           ELSE /\ heap' = [heap EXCEPT ![task] = FinishTask(stepped, now)]
                /\ engine' = [engine EXCEPT ![id] = Returned(i + 1)]
    /\ response' = NoResponse
    /\ UNCHANGED <<phase, config, now, tasks, cancelledAtStep, cleanedUp>>

\* The cancel_task tool handler
CancelTask(id) ==
    /\ phase = "running"
    /\ IF ~validateTaskExists(id)
       THEN /\ response' = [kind |-> "cancel_failed", taskId |-> id]
            /\ UNCHANGED <<phase, config, now, tasks, heap, engine,
                           cancelledAtStep, cleanedUp>>
       ELSE IF CancelRefused(heap[id].status)
       THEN /\ response' = [kind |-> "cannot_cancel", taskId |-> id,
                            status |-> heap[id].status]
            /\ UNCHANGED <<phase, config, now, tasks, heap, engine,
                           cancelledAtStep, cleanedUp>>
       ELSE /\ heap' = [heap EXCEPT ![id] = CancelWrite(heap[id], now)]
            /\ cancelledAtStep' =
                  [cancelledAtStep EXCEPT ![id] = engine[id].i]
            /\ response' = [kind |-> "cancelled", taskId |-> id,
                            status |-> heap'[id].status,
                            updatedAt |-> heap'[id].updatedAt]
            /\ UNCHANGED <<phase, config, now, tasks, engine, cleanedUp>>

\* clearTasks()
ClearTasks ==
    /\ phase = "running"
    /\ tasks' = clearTasks(tasks)
    /\ response' = NoResponse
    /\ UNCHANGED <<phase, config, now, heap, engine, cancelledAtStep, cleanedUp>>

\* The check_status tool handler
CheckStatus(id) ==
    /\ phase = "running"
    /\ response' = IF ~validateTaskExists(id)
                   THEN [kind |-> "check_failed", taskId |-> id]
                   ELSE [kind |-> "status", taskId |-> id,
                         task |-> heap[id]]
    /\ UNCHANGED <<phase, config, now, tasks, heap, engine, cancelledAtStep, cleanedUp>>

\* The list_tasks tool handler
ListTasks(status, limit) ==
    LET sorted == ListSorted(ListFiltered(status, tasks, heap), heap)
        listed == ListSlice(sorted, limit)
        taskList == [k \in 1 .. Len(listed) |-> ListEntry(listed[k], heap)]
    IN  /\ phase = "running"
        /\ response' = ListResponse(status, limit, tasks, taskList)
        /\ UNCHANGED <<phase, config, now, tasks, heap, engine, cancelledAtStep, cleanedUp>>

\* getStats()
GetStats ==
    /\ phase = "running"
    /\ response' = getStats
    /\ UNCHANGED <<phase, config, now, tasks, heap, engine, cancelledAtStep,
                   cleanedUp>>

\* handleShutdown(), up to its await of server.close(): a signal arrived.
HandleShutdown ==
    /\ phase \in {"running", "closing"}
    /\ phase' = "closing"
    /\ heap' = [id \in DOMAIN heap |->
                   IF id \in ShutdownTargets(tasks, heap)
                   THEN ShutdownWrite(heap[id], now)
                   ELSE heap[id]]
    /\ response' = NoResponse
    /\ UNCHANGED <<config, now, tasks, engine, cancelledAtStep, cleanedUp>>

\* handleShutdown() after server.close() resolved: process.exit(0)
ProcessExit ==
    /\ phase = "closing"
    /\ phase' = "exited"
    /\ response' = NoResponse
    /\ UNCHANGED <<config, now, tasks, heap, engine, cancelledAtStep,
                   cleanedUp>>

\* stop(): the signal handlers are removed and the server is closed.
Stop ==
    /\ phase = "running"
    /\ phase' = "stopped"
    /\ response' = NoResponse
    /\ UNCHANGED <<config, now, tasks, heap, engine, cancelledAtStep,
                   cleanedUp>>

\* A delegate request with a task of the given length and a context of the
\* given length: the input schema is applied, and the handler runs only
\* for input that passes it.
DelegateRequest(task, context) ==
    IF ValidTask(task) /\ ValidContext(context)
    THEN Delegate
    ELSE /\ phase = "running"
         /\ response' = [kind |-> "invalid", task |-> task,
                         context |-> context]
         /\ UNCHANGED <<phase, config, now, tasks, heap, engine,
                        cancelledAtStep, cleanedUp>>

Next ==
    \/ Tick
    \/ Delegate
    \/ \E id \in TaskIds : TimerFire(id)
    \/ \E id \in TaskIds : CancelTask(id)
    \/ ClearTasks

Spec == Init /\ [][Next]_vars

\* The server with its two read-only tools as well.  The servers constructed
\* run one task at a time, with the timeout that an on-time task meets and
\* a late one exceeds.
QueryInit ==
    /\ Init
    /\ config.maxConcurrentTasks = 1
    /\ config.taskTimeoutMs = Steps * StepDelay

QueryNext ==
    \/ Next
    \/ GetStats
    \/ \E id \in TaskIds : CheckStatus(id)
    \/ \E status \in StatusFilters, limit \in 1 .. MaxLimit :
          ListTasks(status, limit)

QuerySpec == QueryInit /\ [][QueryNext]_vars

\* The server with the requests the input schema of delegate turns away.
\* The servers constructed are those of QueryInit.
TaskLengths == 0 .. MaxTaskDescriptionLength + 1

ContextLengths == {Undefined} \cup (0 .. MaxContextLength + 1)

ValidationNext ==
    \/ Next
    \/ \E task \in TaskLengths, context \in ContextLengths :
          DelegateRequest(task, context)

ValidationSpec == QueryInit /\ [][ValidationNext]_vars

\* The server with its signal handlers installed.  The servers constructed
\* have the largest concurrency limit and the timeout that an on-time task
\* meets and a late one exceeds.
ShutdownInit ==
    /\ Init
    /\ config.maxConcurrentTasks = MaxConcurrent
    /\ config.taskTimeoutMs = Steps * StepDelay

ShutdownNext ==
    \/ Next
    \/ HandleShutdown
    \/ ProcessExit
    \/ Stop

ShutdownSpec == ShutdownInit /\ [][ShutdownNext]_vars

\* Timers fire and the clock advances: the event loop runs every timer
\* whose delay has passed.
\* The liveness check constructs the servers that run one task at a time.
LiveInit == Init /\ config.maxConcurrentTasks = 1

LiveSpec ==
    /\ LiveInit
    /\ [][Next]_vars
    /\ WF_vars(Tick)
    /\ \A id \in TaskIds : WF_vars(TimerFire(id))

\* ------------------------------------------------------------ properties
TerminalCount ==
    Cardinality({id \in tasks : IsTerminal(heap[id].status)})

\* cancel_task was accepted for the task of this id.
CancelAccepted(id) == cancelledAtStep[id] # Undefined

\* processTask(id) has returned.
EngineDone(id) == engine[id].pc = "done"

\* processTask(id) ran all its steps and made its terminal write.
StepsDone(id) == EngineDone(id) /\ engine[id].i = Steps

\* C1: terminal monotonicity: once the status of a task is COMPLETED,
\* FAILED or CANCELLED, no step changes it.
C1_TerminalMonotone ==
    [][\A id \in DOMAIN heap :
          IsTerminal(heap[id].status) =>
             heap'[id].status = heap[id].status]_vars

\* C2: a cancel_task accepted after step k (0 <= k < Steps) and before step
\* Steps completes leaves the task with final status CANCELLED.
C2_CancelBeforeLastStepWins ==
    \A id \in DOMAIN heap :
        (CancelAccepted(id) /\ EngineDone(id)) =>
            heap[id].status = CANCELLED

\* C3: the number of PENDING or IN_PROGRESS records never exceeds
\* maxConcurrentTasks.
C3_ActiveWithinCap == getActiveTaskCount <= config.maxConcurrentTasks

\* C3 witness: the cap is reached with more than one task running, and a
\* delegate call has just been turned away.
C3_CapReached ==
    /\ response.kind = "rejected"
    /\ config.maxConcurrentTasks = MaxConcurrent
    /\ getActiveTaskCount = config.maxConcurrentTasks

\* C4: a task that was not cancelled and whose elapsed time since startedAt
\* exceeded taskTimeoutMs when its steps were done (completedAt is the
\* instant of that check) is FAILED with the timeout error, in every state
\* from then on.
C4_TimeoutForcesFailed ==
    \A id \in DOMAIN heap :
        ( /\ StepsDone(id)
          /\ ~CancelAccepted(id)
          /\ heap[id].completedAt - heap[id].startedAt
                > config.taskTimeoutMs )
        => /\ heap[id].status = FAILED
           /\ heap[id].error = TimeoutError
           /\ heap[id].result = NoText

\* C4 witness: a task failed by timeout only because a timer fired late
\* (on-time steps would have met this timeout).
C4_LateTaskFailed ==
    \E id \in DOMAIN heap :
        /\ StepsDone(id)
        /\ ~CancelAccepted(id)
        /\ config.taskTimeoutMs = Steps * StepDelay
        /\ heap[id].completedAt - heap[id].startedAt > config.taskTimeoutMs
        /\ heap[id].status = FAILED

\* C5 as stated: the number of terminal records never exceeds the
\* retention cap.
C5_TerminalWithinCap == TerminalCount <= RetentionCap

\* C5 amended: the number of terminal records never exceeds the retention
\* cap plus maxConcurrentTasks (cleanupOldTasks runs only inside an accepted
\* delegate; the tasks admitted since may all have ended).
C5_TerminalWithinCapPlusConcurrency ==
    TerminalCount <= RetentionCap + config.maxConcurrentTasks

\* C5 witness: the amended bound is attained.
C5_BoundAttained ==
    /\ config.maxConcurrentTasks = MaxConcurrent
    /\ TerminalCount = RetentionCap + config.maxConcurrentTasks

\* C6: every record an accepted delegate removes (cleanupOldTasks) is
\* terminal at that moment; no PENDING or IN_PROGRESS record, the new one
\* included, leaves the registry in a delegate call.
C6_OnlyTerminalEvicted ==
    [][Len(heap') > Len(heap) =>
          \A id \in (tasks \cup {Len(heap')}) \ tasks' :
              IsTerminal(heap'[id].status)]_vars

\* C6 witness: cleanupOldTasks has deleted a record in the delegate call
\* that just returned, while a non-terminal record stayed in the registry.
C6_EvictedWhileActiveStays ==
    /\ response.kind = "delegated"
    /\ cleanedUp # {}
    /\ cleanedUp \cap tasks = {}
    /\ \E id \in tasks : IsActive(heap[id].status)
    /\ \E id \in tasks : IsTerminal(heap[id].status)

\* C7: the response of an accepted delegate reports status PENDING.
C7_DelegateReportsPending ==
    response.kind = "delegated" => response.status = PENDING

\* C8: a cancel_task accepted before the first progress step of the task
\* has run leaves progress at 0 in every later state, and the final status
\* is CANCELLED.
C8_ImmediateCancelKeepsProgressZero ==
    \A id \in DOMAIN heap :
        cancelledAtStep[id] = 0 =>
            /\ heap[id].progress = 0
            /\ EngineDone(id) => heap[id].status = CANCELLED

\* C9: when processTask has returned, a task whose cancel_task was accepted
\* while a loop check was still ahead (during the timer of an iteration
\* before the last) is CANCELLED; one whose cancel_task was accepted during
\* the timer of the last iteration, with no check left before the terminal
\* write, is COMPLETED or FAILED.
C9_RaceResolvedByNextCheck ==
    \A id \in DOMAIN heap :
        (CancelAccepted(id) /\ EngineDone(id)) =>
            IF cancelledAtStep[id] + 1 < Steps
            THEN heap[id].status = CANCELLED
            ELSE heap[id].status \in {COMPLETED, FAILED}

\* C9 witness: both outcomes of the race, in one state.
C9_BothOutcomes ==
    /\ \E id \in DOMAIN heap :
          /\ CancelAccepted(id) /\ EngineDone(id)
          /\ cancelledAtStep[id] + 1 < Steps
          /\ cancelledAtStep[id] > 0
          /\ heap[id].status = CANCELLED
    /\ \E id \in DOMAIN heap :
          /\ CancelAccepted(id) /\ EngineDone(id)
          /\ cancelledAtStep[id] + 1 = Steps
          /\ heap[id].status = COMPLETED

\* The task met its timeout check and failed it.
TimedOutTask(id) ==
    /\ heap[id].status = FAILED
    /\ heap[id].error = TimeoutError

\* C10: every admitted task that is never cancelled, never removed and
\* does not exceed the timeout eventually is COMPLETED with progress 100
\* and a result.
C10_HappyPathCompletes ==
    \A id \in TaskIds :
        (id \in DOMAIN heap) ~>
            /\ id \in DOMAIN heap
            /\ \/ /\ heap[id].status = COMPLETED
                  /\ heap[id].progress = 100
                  /\ heap[id].result # NoText
               \/ CancelAccepted(id)
               \/ id \notin tasks
               \/ TimedOutTask(id)

\* C10 witness: a task that was never cancelled nor removed is COMPLETED.
C10_Completed ==
    \E id \in tasks :
        /\ ~CancelAccepted(id)
        /\ heap[id].status = COMPLETED
        /\ heap[id].progress = 100
        /\ heap[id].result = SimulatedResult

\* ------------------------------------------------- properties, C11 .. C20
\* The step is a delegate call that was accepted.
DelegateAcceptedStep == response'.kind = "delegated"

\* The step is a delegate call that was turned away.
DelegateRejectedStep == response'.kind = "rejected"

\* C11: a delegate call is accepted if and only if, at the moment of the
\* call, fewer than maxConcurrentTasks records are PENDING or IN_PROGRESS.
C11_AcceptedIffBelowCap ==
    [][/\ DelegateAcceptedStep =>
             getActiveTaskCount < config.maxConcurrentTasks
       /\ DelegateRejectedStep =>
             getActiveTaskCount >= config.maxConcurrentTasks]_vars

\* C11 witness: a delegate call was accepted into the last free slot of a
\* registry that also holds a terminal record.
C11_AcceptedIntoLastSlot ==
    /\ response.kind = "delegated"
    /\ config.maxConcurrentTasks = MaxConcurrent
    /\ getActiveTaskCount = config.maxConcurrentTasks
    /\ TerminalCount > 0

\* C12: a rejected delegate call changes no record, removes and creates
\* none, starts no processTask, and its result carries the active count and
\* the configured limit (which are equal: the 11th task at limit 10 is told
\* limit 10, current 10).
C12_RejectionChangesNothing ==
    [][DelegateRejectedStep =>
          /\ UNCHANGED <<tasks, heap, engine, cancelledAtStep, cleanedUp>>
          /\ response'.maxConcurrentTasks = config.maxConcurrentTasks
          /\ response'.currentActiveTasks = getActiveTaskCount
          /\ response'.currentActiveTasks = response'.maxConcurrentTasks]_vars

\* C12 witness: a rejection in a registry that holds terminal records
\* beside the running ones.
C12_RejectedBesideTerminal ==
    /\ response.kind = "rejected"
    /\ response.currentActiveTasks = MaxConcurrent
    /\ TerminalCount > 0

\* C13: cancel_task on a record that is COMPLETED, FAILED or CANCELLED is
\* refused with that status in the result and changes nothing.
C13_CancelOfTerminalRefused ==
    [][\A id \in TaskIds :
          ( /\ response'.kind \in {"cancelled", "cannot_cancel"}
            /\ response'.taskId = id
            /\ IsTerminal(heap[id].status) )
          => /\ response'.kind = "cannot_cancel"
             /\ response'.status = heap[id].status
             /\ UNCHANGED <<tasks, heap, engine, cancelledAtStep,
                            cleanedUp>>]_vars

\* C13 witness: a cancel_task issued after the last step of the task
\* completed was refused, and the task is still COMPLETED.
C13_CancelAfterCompletionRefused ==
    /\ response.kind = "cannot_cancel"
    /\ response.status = COMPLETED
    /\ StepsDone(response.taskId)
    /\ heap[response.taskId].status = COMPLETED

\* C14: cancel_task and check_status on an identifier with no record in
\* the registry return not-found and change nothing.
C14_NotFoundChangesNothing ==
    [][\A id \in TaskIds :
          ( /\ response'.kind \in {"cancelled", "cannot_cancel",
                                   "cancel_failed", "status", "check_failed"}
            /\ response'.taskId = id
            /\ id \notin tasks )
          => /\ response'.kind \in {"cancel_failed", "check_failed"}
             /\ UNCHANGED <<tasks, heap, engine, cancelledAtStep,
                            cleanedUp>>]_vars

\* C14 witness: check_status of an identifier whose record cleanupOldTasks
\* deleted returned not-found.
C14_EvictedNotFound ==
    /\ response.kind = "check_failed"
    /\ response.taskId \in cleanedUp

\* C15: an accepted cancel_task sets status to CANCELLED and updatedAt to
\* the current time and changes no other field, no other record, and not
\* the registry.
C15_CancelWritesStatusAndUpdatedAt ==
    [][response'.kind = "cancelled" =>
          LET id == response'.taskId
          IN  /\ IsActive(heap[id].status)
              /\ heap' = [heap EXCEPT ![id] =
                            [heap[id] EXCEPT !.status = CANCELLED,
                                             !.updatedAt = now]]
              /\ UNCHANGED <<tasks, engine>>]_vars

\* C15 witness: a task was cancelled in mid-execution, after some progress
\* and some time.
C15_CancelledMidway ==
    /\ response.kind = "cancelled"
    /\ heap[response.taskId].progress > 0
    /\ heap[response.taskId].updatedAt > heap[response.taskId].startedAt
    /\ heap[response.taskId].completedAt = Undefined

\* The records list_tasks had to choose from.
ListMatching ==
    {id \in tasks :
        response.status = NoFilter \/ heap[id].status = response.status}

ListReturnedIds == {response.tasks[k].taskId : k \in DOMAIN response.tasks}

\* C16: list_tasks returns at most limit records, all of the requested
\* status, ordered by updatedAt descending, none twice, and they are the
\* first limit records of the filtered set in that order.
C16_ListFilteredSortedLimited ==
    response.kind = "list" =>
        /\ Len(response.tasks) <= response.limit
        /\ Len(response.tasks) =
              IF Cardinality(ListMatching) < response.limit
              THEN Cardinality(ListMatching)
              ELSE response.limit
        /\ \A k \in DOMAIN response.tasks :
              /\ response.tasks[k].taskId \in ListMatching
              /\ response.tasks[k].status =
                    heap[response.tasks[k].taskId].status
              /\ response.tasks[k].updatedAt =
                    heap[response.tasks[k].taskId].updatedAt
        /\ \A k, l \in DOMAIN response.tasks :
              k < l =>
                 /\ response.tasks[k].updatedAt >= response.tasks[l].updatedAt
                 /\ response.tasks[k].taskId # response.tasks[l].taskId
        /\ \A id \in ListMatching \ ListReturnedIds :
              \A k \in DOMAIN response.tasks :
                 heap[id].updatedAt <= response.tasks[k].updatedAt

\* C16 witness: a filtered list cut by its limit, which left out an older
\* record of the requested status.
C16_ListCutByLimit ==
    /\ response.kind = "list"
    /\ response.status = CANCELLED
    /\ Len(response.tasks) = response.limit
    /\ \E id \in ListMatching \ ListReturnedIds :
          heap[id].updatedAt < response.tasks[1].updatedAt

\* C17: when an accepted delegate call returns, at most RetentionCap (the
\* code's 100) terminal records are left; if it evicted, exactly that many
\* are left and no evicted record was updated later than a surviving
\* terminal record.
C17_NewestTerminalSurvive ==
    [][DelegateAcceptedStep =>
          /\ TerminalCount' <= RetentionCap
          /\ tasks \ tasks' # {} =>
                /\ TerminalCount' = RetentionCap
                /\ \A e \in tasks \ tasks' :
                      \A sv \in tasks' :
                         IsTerminal(heap'[sv].status) =>
                            heap'[e].updatedAt <= heap'[sv].updatedAt]_vars

\* C17 witness: the first delegate call that can find more terminal records
\* than the cap has returned, and it evicted a record that is older than a
\* terminal record it kept.
C17_OlderEvicted ==
    /\ response.kind = "delegated"
    /\ response.taskId = RetentionCap + 2
    /\ \E e \in cleanedUp : \E sv \in tasks :
          /\ IsTerminal(heap[sv].status)
          /\ heap[e].updatedAt < heap[sv].updatedAt

\* C18: a record has a result only when COMPLETED and an error only when
\* FAILED.
C18_ResultOnlyCompletedErrorOnlyFailed ==
    \A id \in DOMAIN heap :
        /\ heap[id].result # NoText => heap[id].status = COMPLETED
        /\ heap[id].error # NoText => heap[id].status = FAILED

\* C18 witness: a COMPLETED record with its result beside a FAILED record
\* with its error.
C18_ResultBesideError ==
    /\ \E id \in tasks :
          heap[id].status = COMPLETED /\ heap[id].result # NoText
    /\ \E id \in tasks :
          heap[id].status = FAILED /\ heap[id].error # NoText

\* C19: every status change of a record is one of the five transitions of
\* the state machine, and a new record starts in PENDING (the delegate
\* handler creates it PENDING and takes it to IN_PROGRESS before it
\* returns, so after the call it is in one of these two).
C19_TransitionsFollowStateMachine ==
    [][/\ \A id \in DOMAIN heap :
             heap'[id].status # heap[id].status =>
                <<heap[id].status, heap'[id].status>> \in
                   {<<PENDING, IN_PROGRESS>>, <<IN_PROGRESS, COMPLETED>>,
                    <<IN_PROGRESS, FAILED>>, <<PENDING, CANCELLED>>,
                    <<IN_PROGRESS, CANCELLED>>}
       /\ \A id \in DOMAIN heap' \ DOMAIN heap :
             heap'[id].status \in {PENDING, IN_PROGRESS}]_vars

\* C20: progress is an integer in 0..100, does not decrease while the
\* record is IN_PROGRESS, and is 100 in every COMPLETED record.
C20_ProgressBoundedMonotone ==
    /\ [](\A id \in DOMAIN heap :
             /\ heap[id].progress \in 0 .. 100
             /\ heap[id].status = COMPLETED => heap[id].progress = 100)
    /\ [][\A id \in DOMAIN heap :
             (heap[id].status = IN_PROGRESS /\ heap'[id].status = IN_PROGRESS)
                => heap'[id].progress >= heap[id].progress]_vars

\* C20 witness: a record in mid-execution beside a COMPLETED one.
C20_MidwayBesideCompleted ==
    /\ \E id \in DOMAIN heap :
          heap[id].status = IN_PROGRESS /\ heap[id].progress = 60
    /\ \E id \in DOMAIN heap :
          heap[id].status = COMPLETED /\ heap[id].progress = 100

\* ------------------------------------------------- properties, C21 .. C30
\* C21: in every record updatedAt >= createdAt, startedAt >= createdAt when
\* startedAt is present, and completedAt >= startedAt when completedAt is
\* present.
C21_TimestampsOrdered ==
    \A id \in DOMAIN heap :
        /\ heap[id].updatedAt >= heap[id].createdAt
        /\ heap[id].startedAt # Undefined =>
              heap[id].startedAt >= heap[id].createdAt
        /\ heap[id].completedAt # Undefined =>
              /\ heap[id].startedAt # Undefined
              /\ heap[id].completedAt >= heap[id].startedAt

\* C21 witness: a record created after the epoch that carries all four
\* timestamps, the later ones strictly later.
C21_AllTimestampsSet ==
    \E id \in DOMAIN heap :
        /\ heap[id].createdAt > 0
        /\ heap[id].startedAt >= heap[id].createdAt
        /\ heap[id].completedAt > heap[id].startedAt
        /\ heap[id].updatedAt > heap[id].createdAt

\* C22: getStats changes nothing; totalTasks is the number of records, each
\* per-status count is the number of records with that status, and the five
\* counts add up to totalTasks.
C22_StatsDerivedFromRegistry ==
    /\ [](response.kind = "stats" =>
            /\ response.totalTasks = Cardinality(tasks)
            /\ response.pendingTasks =
                  Cardinality({id \in tasks : heap[id].status = PENDING})
            /\ response.inProgressTasks =
                  Cardinality({id \in tasks : heap[id].status = IN_PROGRESS})
            /\ response.completedTasks =
                  Cardinality({id \in tasks : heap[id].status = COMPLETED})
            /\ response.failedTasks =
                  Cardinality({id \in tasks : heap[id].status = FAILED})
            /\ response.cancelledTasks =
                  Cardinality({id \in tasks : heap[id].status = CANCELLED})
            /\ response.totalTasks =
                  response.pendingTasks + response.inProgressTasks
                  + response.completedTasks + response.failedTasks
                  + response.cancelledTasks)
    /\ [][response'.kind = "stats" =>
             UNCHANGED <<phase, config, now, tasks, heap, engine>>]_vars

\* C22 witness: getStats on a registry that holds a running and a terminal
\* record and has lost one to cleanupOldTasks.
C22_StatsAfterEviction ==
    /\ response.kind = "stats"
    /\ response.totalTasks = 2
    /\ response.inProgressTasks = 1
    /\ cleanedUp # {}

\* C23: the registry is empty on a new server and right after clearTasks();
\* an empty registry stays empty until a delegate call is accepted (no
\* engine step of a cleared task puts a record back); getStats on an empty
\* registry returns zero in every count.
C23_ClearedRegistryStaysEmpty ==
    /\ tasks = {}
    /\ [][/\ (tasks' # tasks /\ heap' = heap) => tasks' = {}
          /\ (tasks = {} /\ tasks' # {}) => DelegateAcceptedStep
          /\ (response'.kind = "stats" /\ tasks' = {}) =>
                /\ response'.totalTasks = 0
                /\ response'.pendingTasks = 0
                /\ response'.inProgressTasks = 0
                /\ response'.completedTasks = 0
                /\ response'.failedTasks = 0
                /\ response'.cancelledTasks = 0]_vars

\* C23 witness: getStats on a registry emptied by clearTasks() while a task
\* was running, after the engine of that task took its next step and
\* stopped.
C23_EngineStoppedAfterClear ==
    /\ response.kind = "stats"
    /\ response.totalTasks = 0
    /\ \E id \in DOMAIN engine :
          /\ id \notin cleanedUp
          /\ ~CancelAccepted(id)
          /\ EngineDone(id)
          /\ engine[id].i < Steps
          /\ heap[id].progress > 0

\* C24: once cancel_task has set a record to CANCELLED, the engine of that
\* task writes nothing more to the record.
C24_NoEngineWriteAfterCancel ==
    [][\A id \in DOMAIN heap :
          (CancelAccepted(id) /\ heap[id].status = CANCELLED)
             => heap'[id] = heap[id]]_vars

\* The processTask calls that have not returned.
RunningEngines == {id \in DOMAIN engine : engine[id].pc = "await"}

\* C25: the number of processTask calls that have not returned never
\* exceeds maxConcurrentTasks.
C25_RunningEnginesWithinCap ==
    Cardinality(RunningEngines) <= config.maxConcurrentTasks

\* The step is a step of a processTask call that began in an earlier step.
EngineStep(id) ==
    /\ id \in DOMAIN engine
    /\ engine'[id] # engine[id]

\* C26: check_status, list_tasks, getStats, cancel_task, a rejected
\* delegate and every engine step leave the set of identifiers in the
\* registry unchanged, and the three queries leave every record unchanged;
\* a record leaves the registry only in an accepted delegate that found
\* more terminal records than the cap (and then it is a terminal record),
\* or in clearTasks().
C26_OnlyRetentionAndClearRemove ==
    [][/\ response'.kind \in {"status", "check_failed", "list", "stats"} =>
             UNCHANGED <<tasks, heap>>
       /\ response'.kind \in {"cancelled", "cannot_cancel", "cancel_failed",
                              "rejected"} => tasks' = tasks
       /\ (\E id \in TaskIds : EngineStep(id)) => tasks' = tasks
       /\ tasks \ tasks' # {} =>
             \/ /\ DelegateAcceptedStep
                /\ TerminalCount > RetentionCap
                /\ \A id \in tasks \ tasks' : IsTerminal(heap[id].status)
             \/ /\ tasks' = {}
                /\ heap' = heap
                /\ response'.kind = "none"]_vars

\* C26 witness: check_status answered for a running task in a registry that
\* has lost a record to cleanupOldTasks and still holds a terminal one.
C26_QueryAfterEviction ==
    /\ response.kind = "status"
    /\ response.task.status = IN_PROGRESS
    /\ response.task.progress > 0
    /\ cleanedUp # {}
    /\ TerminalCount = RetentionCap

\* C27: startedAt and completedAt never change once set; startedAt is
\* absent exactly while the status is PENDING; completedAt is present
\* exactly when the status is COMPLETED or FAILED.
C27_StartedAndCompletedSetOnce ==
    /\ [](\A id \in DOMAIN heap :
             /\ heap[id].startedAt = Undefined <=> heap[id].status = PENDING
             /\ heap[id].completedAt # Undefined <=>
                   heap[id].status \in {COMPLETED, FAILED})
    /\ [][\A id \in DOMAIN heap :
             /\ heap[id].startedAt # Undefined =>
                   heap'[id].startedAt = heap[id].startedAt
             /\ heap[id].completedAt # Undefined =>
                   heap'[id].completedAt = heap[id].completedAt]_vars

\* C27 witness: a CANCELLED record without completedAt, whose engine has
\* stepped since the start, beside a FAILED record with completedAt.
C27_CancelledWithoutCompletedAt ==
    /\ \E id \in DOMAIN heap :
          /\ heap[id].status = CANCELLED
          /\ heap[id].completedAt = Undefined
          /\ heap[id].progress > 0
    /\ \E id \in DOMAIN heap :
          /\ heap[id].status = FAILED
          /\ heap[id].completedAt # Undefined

\* C28 as stated: a task whose steps together took longer than
\* taskTimeoutMs, each timer having fired, reports success.
C28_LateTaskReportsSuccess ==
    \A id \in DOMAIN heap :
        ( /\ StepsDone(id)
          /\ ~CancelAccepted(id)
          /\ heap[id].completedAt - heap[id].startedAt
                > config.taskTimeoutMs )
        => heap[id].status = COMPLETED

\* C28 amended: no task ends COMPLETED later than taskTimeoutMs after its
\* start: a task whose steps together take longer stays non-terminal past
\* its deadline until the last step finishes, and then ends FAILED.
C28_CompletedOnlyWithinTimeout ==
    \A id \in DOMAIN heap :
        /\ heap[id].status = COMPLETED =>
              heap[id].completedAt - heap[id].startedAt
                 <= config.taskTimeoutMs
        /\ ( /\ EngineDone(id)
             /\ heap[id].status \in {COMPLETED, FAILED}
             /\ heap[id].completedAt - heap[id].startedAt
                   > config.taskTimeoutMs )
           => /\ heap[id].status = FAILED
              /\ StepsDone(id)

\* C28 witness: a task that completed exactly at its deadline beside one
\* whose last timer fired late and which failed, all its steps done.
C28_OnTimeBesideLate ==
    /\ \E id \in DOMAIN heap :
          /\ heap[id].status = COMPLETED
          /\ heap[id].completedAt - heap[id].startedAt = config.taskTimeoutMs
    /\ \E id \in DOMAIN heap :
          /\ heap[id].status = FAILED
          /\ heap[id].progress = 100
          /\ heap[id].completedAt - heap[id].startedAt > config.taskTimeoutMs

\* C29: a step of processTask(id) changes no record but that of id, adds
\* and removes no registry entry and leaves every other processTask call
\* where it is; when it fails, the record of id is FAILED with the error.
C29_EngineWritesOwnRecordOnly ==
    [][\A id \in TaskIds :
          EngineStep(id) =>
             /\ tasks' = tasks
             /\ DOMAIN heap' = DOMAIN heap
             /\ \A other \in DOMAIN heap \ {id} :
                   /\ heap'[other] = heap[other]
                   /\ engine'[other] = engine[other]
             /\ (heap'[id].error # heap[id].error) =>
                   /\ heap'[id].status = FAILED
                   /\ heap'[id].error = TimeoutError]_vars

\* C29 witness: a task failed while another was running, and that one
\* completed afterwards.
C29_CompletedAfterOtherFailed ==
    \E a, b \in DOMAIN heap :
        /\ heap[a].status = FAILED
        /\ heap[b].status = COMPLETED
        /\ heap[b].startedAt > heap[a].startedAt
        /\ heap[b].startedAt < heap[a].completedAt
        /\ heap[b].completedAt >= heap[a].completedAt

\* C30: every step that changes a record sets its updatedAt to the current
\* time (engine start, progress step, completion, failure, cancel_task,
\* shutdown), and updatedAt never decreases.
C30_UpdatedAtRefreshed ==
    [][/\ \A id \in DOMAIN heap :
             /\ heap'[id] # heap[id] => heap'[id].updatedAt = now'
             /\ heap'[id].updatedAt >= heap[id].updatedAt
       /\ \A id \in DOMAIN heap' \ DOMAIN heap :
             heap'[id].updatedAt = now']_vars

\* C30 witness: handleShutdown cancelled a task some time after its last
\* progress step.
C30_ShutdownRefreshedUpdatedAt ==
    /\ phase = "closing"
    /\ \E id \in tasks :
          /\ heap[id].status = CANCELLED
          /\ ~CancelAccepted(id)
          /\ heap[id].progress > 0
          /\ heap[id].updatedAt = now
          /\ engine[id].pc = "await"
          /\ engine[id].due = now

\* ------------------------------------------------- properties, C31 .. C36
\* C31: with timers that fire, every record a delegate call created
\* eventually is COMPLETED, FAILED or CANCELLED or has been removed from
\* the registry by clearTasks, and its processTask call returns, after at
\* most Steps timers.
C31_EveryTaskLeavesActive ==
    /\ \A id \in TaskIds :
          (id \in DOMAIN heap) ~>
             ( /\ id \in DOMAIN heap
               /\ EngineDone(id)
               /\ \/ IsTerminal(heap[id].status)
                  \/ id \notin tasks /\ id \notin cleanedUp )
    /\ [](\A id \in DOMAIN engine : engine[id].i <= Steps)

\* C31 witness: a task removed by clearTasks while running, whose
\* processTask call returned at its next check, beside a task that ran
\* all its steps.
C31_ClearedBesideFinished ==
    /\ \E id \in DOMAIN heap :
          /\ id \notin tasks
          /\ id \notin cleanedUp
          /\ heap[id].status = IN_PROGRESS
          /\ EngineDone(id)
          /\ engine[id].i < Steps
    /\ \E id \in tasks :
          /\ StepsDone(id)
          /\ IsTerminal(heap[id].status)

C33_FailedOnlyAfterAllSteps ==
    \A id \in DOMAIN heap :
        /\ heap[id].status = FAILED =>
              /\ StepsDone(id)
              /\ heap[id].progress = 100
              /\ heap[id].error = TimeoutError
              /\ heap[id].completedAt - heap[id].startedAt
                    > config.taskTimeoutMs
        /\ (engine[id].pc = "await" /\ ~CancelAccepted(id)) =>
              heap[id].status = IN_PROGRESS

\* C33 witness: on a server whose timeout no task can meet, one task has
\* failed after its last step and another is past its deadline and still
\* IN_PROGRESS.
C33_FailedBesidePastDeadline ==
    /\ config.taskTimeoutMs < Steps * StepDelay
    /\ \E id \in DOMAIN heap :
          /\ heap[id].status = FAILED
          /\ heap[id].progress = 100
          /\ heap[id].error = TimeoutError
    /\ \E id \in DOMAIN heap :
          /\ heap[id].status = IN_PROGRESS
          /\ now - heap[id].startedAt > config.taskTimeoutMs
          /\ engine[id].pc = "await"

\* C34: in the result of list_tasks total is the number of records in the
\* registry, whatever the filter, filtered is the number of records
\* returned, and filtered is at most the limit and at most total.
C34_ListTotalAndFiltered ==
    response.kind = "list" =>
        /\ response.total = Cardinality(tasks)
        /\ response.filtered = Len(response.tasks)
        /\ response.filtered <= response.limit
        /\ response.filtered <= response.total

\* C34 witness: a filtered list that returned fewer records than the
\* registry holds and than the limit allows.
C34_FilteredBelowTotal ==
    /\ response.kind = "list"
    /\ response.status = IN_PROGRESS
    /\ response.total = 2
    /\ response.limit = 2
    /\ response.filtered = 1

ShutdownStep ==
    /\ phase' = "closing"
    /\ now' = now
    /\ engine' = engine

\* C36: handleShutdown sets every PENDING or IN_PROGRESS record of the
\* registry to CANCELLED with updatedAt the current time and leaves the
\* terminal records unchanged, so that no record of the registry is
\* non-terminal after it; stop() changes no record, no registry entry and
\* no processTask call.
C36_ShutdownCancelsActiveOnly ==
    [][/\ ShutdownStep =>
             /\ tasks' = tasks
             /\ \A id \in tasks :
                   /\ IsActive(heap[id].status) =>
                         heap'[id] = [heap[id] EXCEPT !.status = CANCELLED,
                                                      !.updatedAt = now]
                   /\ IsTerminal(heap[id].status) => heap'[id] = heap[id]
                   /\ IsTerminal(heap'[id].status)
       /\ (phase = "running" /\ phase' = "stopped") =>
             UNCHANGED <<tasks, heap, engine>>]_vars

\* C36 witness: handleShutdown has cancelled a running task and left a
\* COMPLETED record as it was.
C36_CancelledBesideCompleted ==
    /\ phase = "closing"
    /\ \E id \in tasks :
          /\ heap[id].status = CANCELLED
          /\ ~CancelAccepted(id)
          /\ heap[id].updatedAt = now
          /\ engine[id].pc = "await"
    /\ \E id \in tasks :
          /\ heap[id].status = COMPLETED
          /\ heap[id].updatedAt = heap[id].completedAt
          /\ heap[id].updatedAt < now

====
